---- MODULE Spec2Model ----
(***************************************************************************)
(* Esports Tournament Tracker backend: the PandaScore client               *)
(* (backend/services/pandascore.py), the request handlers                  *)
(* (backend/main.py) and the persisted tables (backend/models.py).         *)
(*                                                                         *)
(* JSON values are encoded with uniform shapes: an absent key is Missing,  *)
(* a JSON null (Python None) is Null, and an object that may be absent,    *)
(* null or of the wrong type carries a "kind" field.  Python exceptions    *)
(* are the "err" field of a result ("" when nothing was raised).           *)
(***************************************************************************)
EXTENDS Integers, Sequences, FiniteSets, TLC

VARIABLES
    tournaments,   \* committed rows of table "tournaments"
    teams,         \* committed rows of table "teams"
    request,       \* the last inbound request (or direct client call)
    response,      \* the answer to it
    calls,         \* provider requests issued while serving it, in order
    fetched,       \* history: external_id -> fields last fetched by a successful list-tournaments request
    inflight       \* list-tournaments requests running side by side: request -> its progress and session

vars == <<tournaments, teams, request, response, calls, fetched, inflight>>

----------------------------------------------------------------------------
(* Bounds *)

MaxBatch == 2      \* records in one provider list response (handlers)
MaxFetch == 2      \* records in one provider list response (direct client calls)
MaxMatches == 5    \* recent matches handed to the win-rate computation

----------------------------------------------------------------------------
(* JSON encodings *)

Missing == "<missing>"
Null == "<null>"
NoGame == "<none>"

Truthy(s) == s \notin {Missing, Null, NoGame, ""}

SeqsUpTo(S, n) == UNION {[1..k -> S] : k \in 0..n}

Digit == <<"0", "1", "2", "3", "4", "5", "6", "7", "8", "9">>

RECURSIVE Str(_)
Str(n) == IF n < 10 THEN Digit[n + 1] ELSE Str(n \div 10) \o Digit[(n % 10) + 1]

----------------------------------------------------------------------------
(* PandaScoreAPI *)

SUPPORTED_GAMES == [lol |-> "league-of-legends", valorant |-> "valorant"]

SupportedKeys == <<"lol", "valorant">>

IsSupported(game) == game \in DOMAIN SUPPORTED_GAMES

RECURSIVE Join(_)
Join(keys) ==
    IF keys = <<>> THEN ""
    ELSE IF Len(keys) = 1 THEN keys[1]
    ELSE keys[1] \o ", " \o Join(Tail(keys))

UnsupportedMessage == "Unsupported game. Supported games are: " \o Join(SupportedKeys)

tournaments_endpoint(game) ==
    IF game = "lol" THEN "/lol/tournaments"
    ELSE IF game = "valorant" THEN "/valorant/tournaments"
    ELSE "/tournaments"

\* videogame.get("slug") if isinstance(videogame, dict) else None; an absent key reads as {}
game_slug(t) == IF t.videogame.kind = "dict" /\ t.videogame.slug # Missing
                THEN t.videogame.slug
                ELSE Null

keep_tournament_NoFilter(game, t) == TRUE

keep_tournament(game, t) ==
    ~(Truthy(game) /\ IsSupported(game) /\ game_slug(t) # SUPPORTED_GAMES[game])

\* tournament["league"].get(...) and tournament["series"].get(...) raise on a null value
enhance_raises(t) == t.league = "null" \/ t.series = "null"

enhance_tournament(game, t) ==
    [raw |-> t,
     league_info |-> (t.league = "dict"),
     series_info |-> (t.series = "dict"),
     game_details |-> IF game = "lol" THEN "lol"
                      ELSE IF game = "valorant" THEN "valorant" ELSE "none"]

RECURSIVE filter_tournaments(_, _)
filter_tournaments(game, ts) ==
    IF ts = <<>> THEN [err |-> "", data |-> <<>>]
    ELSE IF ~keep_tournament(game, Head(ts)) THEN filter_tournaments(game, Tail(ts))
    ELSE IF enhance_raises(Head(ts)) THEN [err |-> "AttributeError", data |-> <<>>]
    ELSE LET rest == filter_tournaments(game, Tail(ts))
         IN  IF rest.err # "" THEN rest
             ELSE [err |-> "", data |-> <<enhance_tournament(game, Head(ts))>> \o rest.data]

\* reply: [status, data] of the provider; result: [err, data, calls]
client_get_tournaments(game, reply) ==
    IF Truthy(game) /\ ~IsSupported(game) THEN
        [err |-> "ValueError", msg |-> UnsupportedMessage, data |-> <<>>, calls |-> <<>>]
    ELSE LET call == [resource |-> "tournaments", endpoint |-> tournaments_endpoint(game),
                      status |-> reply.status, data |-> reply.data]
         IN  IF reply.status # 200 THEN
                 [err |-> "HTTPError", msg |-> "HTTPError", data |-> <<>>, calls |-> <<call>>]
             ELSE LET r == filter_tournaments(game, reply.data)
                  IN  [err |-> r.err, msg |-> r.err, data |-> r.data, calls |-> <<call>>]

----------------------------------------------------------------------------
(* Tables and the request-scoped session *)

\* The persisted columns of a row, as a value independent of the primary key
Fields(row) == [name |-> row.name, game |-> row.game, start_date |-> row.start_date,
                end_date |-> row.end_date, status |-> row.status,
                prize_pool |-> row.prize_pool]

NextPk(rows) == IF rows = {} THEN 1
                ELSE 1 + CHOOSE m \in {r.id : r \in rows} : \A r \in rows : r.id <= m

NewSession(table) == [work |-> table, pending |-> <<>>, err |-> ""]

insert_row_NoUnique(sess, obj) ==
    IF sess.err # "" THEN sess
    ELSE [sess EXCEPT !.work = @ \cup {[id |-> NextPk(sess.work)] @@ obj}]

\* INSERT of one pending object; the unique constraint on external_id may reject it
insert_row(sess, obj) ==
    IF sess.err # "" THEN sess
    ELSE IF \E r \in sess.work : r.external_id = obj.external_id
    THEN [sess EXCEPT !.err = "IntegrityError"]
    ELSE [sess EXCEPT !.work = @ \cup {[id |-> NextPk(sess.work)] @@ obj}]

RECURSIVE flush_from(_, _)
flush_from(sess, objs) ==
    IF objs = <<>> THEN sess
    ELSE flush_from(insert_row(sess, Head(objs)), Tail(objs))

flush(sess) == flush_from([sess EXCEPT !.pending = <<>>], sess.pending)

\* db.query(Tournament).filter(external_id == ext).first()
query_first(sess, ext) ==
    LET hits == {r \in sess.work : r.external_id = ext}
    IN  IF hits = {} THEN {}
        ELSE {CHOOSE r \in hits : \A q \in hits : r.id <= q.id}

\* db.rollback(): every change of the session is discarded
rollback_keeps_flushed(table, sess) == sess.work

rollback(table, sess) == table

\* db.commit(): flush, then make the transaction's rows the committed ones
commit(sess, dbOk) ==
    LET s == flush(sess)
    IN  IF s.err # "" THEN s
        ELSE IF ~dbOk THEN [s EXCEPT !.err = "OperationalError"]
        ELSE s

----------------------------------------------------------------------------
(* GET /tournaments *)

IsoTable == [d1 |-> "2024-01-01T00:00:00+00:00", d2 |-> "2024-02-02T00:00:00+00:00"]

IsoInputs == {"2024-01-01T00:00:00Z", "2024-02-02T00:00:00+00:00"}

\* datetime.fromisoformat(s.replace('Z', '+00:00')) if s else None
parse_date(s) ==
    IF ~Truthy(s) THEN Null
    ELSE IF s = "2024-01-01T00:00:00Z" THEN IsoTable.d1
    ELSE IF s = "2024-02-02T00:00:00+00:00" THEN IsoTable.d2
    ELSE "ValueError"

get_or(v, default) == IF v = Missing THEN default ELSE v

\* The exception raised while building tournament_dict for one fetched record ("" if none)
tournament_dict_err(e) ==
    LET t == e.raw
    IN  IF ~t.has_id THEN "KeyError"
        ELSE IF t.videogame.kind \in {"null", "str"} THEN "AttributeError"
        ELSE IF Truthy(t.begin_at) /\ t.begin_at \notin IsoInputs THEN "ValueError"
        ELSE IF Truthy(t.end_at) /\ t.end_at \notin IsoInputs THEN "ValueError"
        ELSE ""

tournament_dict(e) ==
    LET t == e.raw
    IN  [external_id |-> Str(t.id),
         name |-> get_or(t.name, "Unnamed Tournament"),
         game |-> IF t.videogame.kind = "dict"
                  THEN get_or(t.videogame.name, "Unknown Game")
                  ELSE "Unknown Game",
         start_date |-> parse_date(t.begin_at),
         end_date |-> parse_date(t.end_at),
         status |-> get_or(t.status, "unknown"),
         prize_pool |-> get_or(t.prize_pool, "")]

overwrite_NameOnly(row, d) == [row EXCEPT !.name = d.name]

\* setattr(existing_tournament, key, value) for every key of tournament_dict
overwrite(row, d) == [id |-> row.id] @@ d

\* One iteration of the loop over tournaments_data
upsert_tournament(sess, e, autoflush) ==
    IF sess.err # "" THEN sess
    ELSE IF tournament_dict_err(e) # "" THEN [sess EXCEPT !.err = tournament_dict_err(e)]
    ELSE LET d == tournament_dict(e)
             s == IF autoflush THEN flush(sess) ELSE sess
             existing == query_first(s, d.external_id)
         IN  IF s.err # "" THEN s
             ELSE IF existing # {} THEN
                 LET row == CHOOSE r \in existing : TRUE
                 IN  [s EXCEPT !.work = (@ \ {row}) \cup {overwrite(row, d)}]
             ELSE [s EXCEPT !.pending = Append(@, d)]

RECURSIVE upsert_all(_, _, _)
upsert_all(sess, data, autoflush) ==
    IF data = <<>> THEN sess
    ELSE upsert_all(upsert_tournament(sess, Head(data), autoflush), Tail(data), autoflush)

\* History: the fields last fetched for each external_id of a successful batch
RECURSIVE record_fetched(_, _)
record_fetched(f, data) ==
    IF data = <<>> THEN f
    ELSE LET d == tournament_dict(Head(data))
         IN  record_fetched([x \in DOMAIN f \cup {d.external_id} |->
                                IF x = d.external_id
                                THEN [k \in DOMAIN d \ {"external_id"} |-> d[k]]
                                ELSE f[x]],
                            Tail(data))

EmptyBody == [tournaments |-> <<>>, teams |-> <<>>, names |-> <<>>,
              prediction |-> "", confidence |-> 0, outcome |-> "", echo |-> <<>>,
              matches |-> <<>>, tournament |-> <<>>]

Error(status, detail) == [status |-> status, detail |-> detail, body |-> EmptyBody]

Ok(body) == [status |-> 200, detail |-> "", body |-> body]

\* The handler's outcome: [response, table, calls, fetched]
handle_get_tournaments(table, hist, game, reply, autoflush, dbOk) ==
    IF Truthy(game) /\ ~IsSupported(game) THEN
        [response |-> Error(400, UnsupportedMessage), table |-> table,
         calls |-> <<>>, fetched |-> hist]
    ELSE
        LET r == client_get_tournaments(game, reply)
        IN  IF r.err # "" THEN
                [response |-> Error(500, "Failed to fetch tournaments: " \o r.msg),
                 table |-> table, calls |-> r.calls, fetched |-> hist]
            ELSE
                LET s == upsert_all(NewSession(table), r.data, autoflush)
                IN  IF s.err # "" THEN
                        [response |-> Error(500, "Failed to fetch tournaments: " \o s.err),
                         table |-> rollback(table, s), calls |-> r.calls, fetched |-> hist]
                    ELSE
                        LET c == commit(s, dbOk)
                        IN  IF c.err # "" THEN
                                [response |-> Error(500, "Failed to save tournaments to database"),
                                 table |-> rollback(table, c), calls |-> r.calls,
                                 fetched |-> hist]
                            ELSE
                                [response |-> Ok([EmptyBody EXCEPT !.tournaments = r.data]),
                                 table |-> c.work, calls |-> r.calls,
                                 fetched |-> record_fetched(hist, r.data)]

----------------------------------------------------------------------------
(* PandaScoreAPI: teams and matches *)

\* wins / len(matches) * 100 as the exact fraction num/den (0.0 is 0/1)
win_rate_CountsLosses(matches, team_id) ==
    IF matches = <<>> THEN [num |-> 0, den |-> 1]
    ELSE [num |-> 100 * Cardinality({i \in 1..Len(matches) :
                        ~(matches[i].has_winner /\ matches[i].winner_id = team_id)}),
          den |-> Len(matches)]

RECURSIVE count_wins(_, _)
count_wins(matches, team_id) ==
    IF matches = <<>> THEN 0
    ELSE (IF Head(matches).has_winner /\ Head(matches).winner_id = team_id THEN 1 ELSE 0)
         + count_wins(Tail(matches), team_id)

calculate_win_rate(matches, team_id) ==
    IF matches = <<>> THEN [num |-> 0, den |-> 1]
    ELSE [num |-> count_wins(matches, team_id) * 100, den |-> Len(matches)]

NoPerformance == [present |-> FALSE, matches |-> <<>>, win_rate |-> [num |-> 0, den |-> 1]]

\* if game == "lol": the secondary request is issued
attach_performance(game) == game = "lol"

matches_call(t, reply) ==
    [resource |-> "team_matches", endpoint |-> "/teams/" \o Str(t.id) \o "/matches",
     status |-> reply.status, data |-> reply.data]

secondary_error_Raises(reply) == IF reply.status # 200 THEN "HTTPError" ELSE ""

\* matches_response is only tested with .ok: a failed secondary request raises nothing
secondary_error(reply) == ""

enhance_team(game, t, reply) ==
    [raw |-> t,
     roster |-> (t.players = "list"),
     recent_performance |->
        IF attach_performance(game) /\ reply.status = 200
        THEN [present |-> TRUE, matches |-> reply.data,
              win_rate |-> calculate_win_rate(reply.data, t.id)]
        ELSE NoPerformance]

\* The loop over teams; replies[i] answers the secondary request of the i-th team
RECURSIVE enhance_teams(_, _, _)
enhance_teams(game, ts, replies) ==
    IF ts = <<>> THEN [err |-> "", data |-> <<>>, calls |-> <<>>]
    ELSE LET t == Head(ts)
         IN  IF t.players = "null" THEN [err |-> "TypeError", data |-> <<>>, calls |-> <<>>]
             ELSE IF attach_performance(game) /\ ~t.has_id
                  THEN [err |-> "KeyError", data |-> <<>>, calls |-> <<>>]
             ELSE LET mine == IF attach_performance(game)
                              THEN <<matches_call(t, Head(replies))>> ELSE <<>>
                  IN  IF attach_performance(game) /\ secondary_error(Head(replies)) # ""
                      THEN [err |-> secondary_error(Head(replies)), data |-> <<>>,
                            calls |-> mine]
                      ELSE LET rest == enhance_teams(game, Tail(ts),
                                           IF attach_performance(game)
                                           THEN Tail(replies) ELSE replies)
                           IN  [err |-> rest.err,
                                data |-> IF rest.err # "" THEN <<>>
                                         ELSE <<enhance_team(game, t,
                                                  IF attach_performance(game)
                                                  THEN Head(replies)
                                                  ELSE [status |-> 0, data |-> <<>>])>>
                                              \o rest.data,
                                calls |-> mine \o rest.calls]

client_get_teams(game, reply, replies) ==
    IF Truthy(game) /\ ~IsSupported(game) THEN
        [err |-> "ValueError", msg |-> UnsupportedMessage, data |-> <<>>, calls |-> <<>>]
    ELSE LET call == [resource |-> "teams", endpoint |-> "/teams", status |-> reply.status,
                      data |-> reply.data]
         IN  IF reply.status # 200 THEN
                 [err |-> "HTTPError", msg |-> "HTTPError", data |-> <<>>, calls |-> <<call>>]
             ELSE LET r == enhance_teams(game, reply.data, replies)
                  IN  [err |-> r.err, msg |-> r.err, data |-> r.data,
                       calls |-> <<call>> \o r.calls]

\* opponents normalised to {"opponent": {id, name, image_url, acronym}}
enhance_match(m) ==
    [m EXCEPT !.opponents = [i \in 1..Len(m.opponents) |->
                                [name |-> IF m.opponents[i].has_opponent
                                          THEN m.opponents[i].name ELSE Null]]]

client_get_matches(tournament_id, reply) ==
    LET call == [resource |-> "matches", endpoint |-> "/matches?tournament_id=" \o tournament_id,
                 status |-> reply.status, data |-> reply.data]
    IN  IF reply.status # 200 THEN
            [err |-> "HTTPError", msg |-> "HTTPError", data |-> <<>>, calls |-> <<call>>]
        ELSE [err |-> "", msg |-> "", data |-> [i \in 1..Len(reply.data) |->
                                                    enhance_match(reply.data[i])],
              calls |-> <<call>>]

\* reply.data is <<>> for an empty JSON object, <<m>> for the match m
client_get_match(match_id, reply) ==
    LET call == [resource |-> "match", endpoint |-> "/matches/" \o match_id, status |-> reply.status,
                 data |-> reply.data]
    IN  IF reply.status # 200 THEN
            [err |-> "HTTPError", msg |-> "HTTPError", data |-> <<>>, calls |-> <<call>>]
        ELSE [err |-> "", msg |-> "", data |-> reply.data, calls |-> <<call>>]

client_get_tournament(tournament_id, reply) ==
    LET call == [resource |-> "tournament", endpoint |-> "/tournaments/" \o tournament_id, status |-> reply.status,
                 data |-> reply.data]
    IN  IF reply.status # 200 THEN
            [err |-> "HTTPError", msg |-> "HTTPError", data |-> <<>>, calls |-> <<call>>]
        ELSE IF reply.data = <<>> THEN
            [err |-> "", msg |-> "", data |-> <<>>, calls |-> <<call>>]
        ELSE LET t == reply.data[1]
             IN  IF enhance_raises(t) \/ t.videogame.kind \in {"null", "str"} THEN
                     [err |-> "AttributeError", msg |-> "AttributeError", data |-> <<>>,
                      calls |-> <<call>>]
                 ELSE [err |-> "", msg |-> "",
                       data |-> <<enhance_tournament(
                                    IF game_slug(t) = SUPPORTED_GAMES.lol THEN "lol"
                                    ELSE IF game_slug(t) = SUPPORTED_GAMES.valorant
                                    THEN "valorant" ELSE NoGame, t)>>,
                       calls |-> <<call>>]

----------------------------------------------------------------------------
(* GET /teams *)

team_obj_err(e) ==
    LET t == e.raw
    IN  IF ~t.has_id THEN "KeyError"
        ELSE IF t.current_videogame.kind \in {"null", "str"} THEN "AttributeError"
        ELSE ""

\* Team(external_id=..., name=..., acronym=..., image_url=..., game=...); no primary key is set
team_obj(e) ==
    LET t == e.raw
    IN  [external_id |-> Str(t.id),
         name |-> get_or(t.name, "Unnamed Team"),
         acronym |-> get_or(t.acronym, ""),
         image_url |-> get_or(t.image_url, ""),
         game |-> IF t.current_videogame.kind = "dict"
                  THEN get_or(t.current_videogame.name, "Unknown Game")
                  ELSE "Unknown Game",
         rating |-> 1500]

\* db.merge(team): merge goes by primary key; the object has none, so a new
\* instance is added to the session and inserted at the next flush
merge(sess, obj) == [sess EXCEPT !.pending = Append(@, obj)]

RECURSIVE merge_all(_, _)
merge_all(sess, data) ==
    IF data = <<>> \/ sess.err # "" THEN sess
    ELSE IF team_obj_err(Head(data)) # ""
    THEN [sess EXCEPT !.err = team_obj_err(Head(data))]
    ELSE merge_all(merge(sess, team_obj(Head(data))), Tail(data))

\* The handler's outcome: [response, table, calls]
handle_get_teams(table, game, reply, replies, dbOk) ==
    LET r == client_get_teams(game, reply, replies)
    IN  IF r.err # "" THEN
            [response |-> Error(500, "Failed to fetch teams: " \o r.msg),
             table |-> table, calls |-> r.calls]
        ELSE
            LET s == merge_all(NewSession(table), r.data)
                c == IF s.err # "" THEN s ELSE commit(s, dbOk)
            IN  IF c.err # "" THEN
                    [response |-> Error(500, "Failed to fetch teams: " \o c.err),
                     table |-> rollback(table, c), calls |-> r.calls]
                ELSE
                    [response |-> Ok([EmptyBody EXCEPT !.teams = r.data]),
                     table |-> c.work, calls |-> r.calls]

----------------------------------------------------------------------------
(* GET /predictions/{match_id}, POST /predictions/{match_id}, GET /tournaments/{id} *)

\* pandascore.get_matches(match_id): the id is bound to tournament_id and a list comes
\* back; a non-empty list has no .get, so building the answer raises AttributeError
handle_get_match_prediction(match_id, reply) ==
    LET r == client_get_matches(match_id, reply)
    IN  IF r.err # "" THEN
            [response |-> Error(500, "Failed to get match prediction: " \o r.msg),
             calls |-> r.calls]
        ELSE IF r.data = <<>> THEN
            [response |-> Error(404, "Match with ID " \o match_id \o " not found"),
             calls |-> r.calls]
        ELSE
            [response |-> Error(500, "Failed to get match prediction: AttributeError"),
             calls |-> r.calls]

handle_get_tournament_details(tournament_id, reply, mreply) ==
    LET r == client_get_tournament(tournament_id, reply)
    IN  IF r.err # "" THEN
            [response |-> Error(500, "Failed to fetch tournament details: " \o r.msg),
             calls |-> r.calls]
        ELSE IF r.data = <<>> THEN
            [response |-> Error(404, "Tournament with ID " \o tournament_id \o " not found"),
             calls |-> r.calls]
        ELSE
            LET m == client_get_matches(tournament_id, mreply)
            IN  IF m.err # "" THEN
                    [response |-> Error(500, "Failed to fetch tournament details: " \o m.msg),
                     calls |-> r.calls \o m.calls]
                ELSE
                    [response |-> Ok([EmptyBody EXCEPT !.tournament = r.data,
                                                       !.matches = m.data]),
                     calls |-> r.calls \o m.calls]

is_finished_Never(m) == FALSE

\* match_data.get("status") == "finished"
is_finished(m) == m.status = "finished"

handle_create_prediction(match_id, prediction, reply) ==
    LET r == client_get_match(match_id, reply)
    IN  IF r.err # "" THEN
            [response |-> Error(500, "Failed to create prediction: " \o r.msg),
             calls |-> r.calls]
        ELSE IF r.data = <<>> THEN
            [response |-> Error(404, "Match with ID " \o match_id \o " not found"),
             calls |-> r.calls]
        ELSE IF is_finished(r.data[1]) THEN
            [response |-> Error(400, "Cannot make predictions for finished matches"),
             calls |-> r.calls]
        ELSE
            [response |-> Ok([EmptyBody EXCEPT !.outcome = "success",
                                               !.echo = <<prediction>>]),
             calls |-> r.calls]

----------------------------------------------------------------------------
(* Inputs: what callers send and what the provider answers *)

Games == {NoGame, "", "lol", "valorant", "dota2"}

LolVg == [kind |-> "dict", slug |-> "league-of-legends", name |-> "LoL"]
ValVg == [kind |-> "dict", slug |-> "valorant", name |-> "Valorant"]
Vg(kind) == [kind |-> kind, slug |-> Missing, name |-> Missing]

Tournament(id, name, vg, begin, end, status, prize, league) ==
    [has_id |-> id > 0, id |-> id, name |-> name, videogame |-> vg, begin_at |-> begin,
     end_at |-> end, status |-> status, prize_pool |-> prize, league |-> league,
     series |-> IF league = "null" THEN "absent" ELSE league]

TournamentSamples ==
    {Tournament(1, "Worlds", LolVg, "2024-01-01T00:00:00Z", "2024-02-02T00:00:00+00:00",
                "running", "1000", "dict"),
     Tournament(1, Missing, [LolVg EXCEPT !.name = Missing], Missing, Null,
                Missing, Missing, "absent"),
     Tournament(12, "Champions", ValVg, "2024-02-02T00:00:00+00:00", Missing,
                "upcoming", Null, "dict"),
     Tournament(12, "Open", Vg("null"), Missing, Missing, "running", "", "absent"),
     Tournament(1, "Worlds", LolVg, "not-a-date", Missing, "running", "", "absent")}

\* Every shape of videogame and league the client has to cope with
TournamentShapes ==
    {Tournament(1, "Shape", vg, Missing, Missing, "running", "", league) :
        vg \in {LolVg, ValVg, [LolVg EXCEPT !.slug = "dota-2"], Vg("dict"), Vg("missing"),
                Vg("null"), Vg("str")},
        league \in {"dict", "absent", "null"}}

Team(id, name, acronym, image, cv, players) ==
    [has_id |-> id > 0, id |-> id, name |-> name, acronym |-> acronym,
     image_url |-> image, current_videogame |-> cv, players |-> players]

TeamSamples ==
    {Team(1, "T1", "T1", "t1.png", [kind |-> "dict", name |-> "LoL"], "list"),
     Team(1, "T1 Esports", Missing, Null, [kind |-> "missing", name |-> Missing], "absent"),
     Team(12, "Fnatic", "FNC", Missing, [kind |-> "dict", name |-> Missing], "absent"),
     Team(12, "Fnatic", "FNC", "fnc.png", [kind |-> "null", name |-> Missing], "list")}

TeamShapes ==
    TeamSamples \cup
    {Team(0, "Ghost", "", "", [kind |-> "dict", name |-> "LoL"], "absent"),
     Team(1, "T1", "T1", "t1.png", [kind |-> "dict", name |-> "LoL"], "null")}

Opp(name) == [has_opponent |-> TRUE, name |-> name]

Match(status, winner, opponents) ==
    [status |-> status, has_winner |-> winner > 0, winner_id |-> winner,
     opponents |-> opponents]

MatchSamples ==
    {Match("finished", 1, <<Opp("T1"), Opp("Fnatic")>>),
     Match("finished", 12, <<Opp("T1"), Opp("Fnatic")>>),
     Match("running", 0, <<Opp("T1")>>),
     Match(Missing, 0, <<Opp("T1"), Opp("Fnatic"), Opp("G2")>>)}

Failure == [status |-> 500, data |-> <<>>]
Absent == [status |-> 404, data |-> <<>>]
Found(data) == [status |-> 200, data |-> data]

ListReplies(samples, n) == {Failure, Absent} \cup {Found(d) : d \in SeqsUpTo(samples, n)}

SingleReplies(samples) == {Failure, Absent, Found(<<>>)} \cup {Found(<<x>>) : x \in samples}

RecentReplies ==
    {Failure, Found(<<Match("finished", 1, <<>>), Match("finished", 12, <<>>)>>)}

RecentShapes == RecentReplies \cup {Found(<<>>)}

WinnerSamples == {Match("finished", 1, <<>>), Match("finished", 12, <<>>),
                  Match("running", 0, <<>>)}

Ids == {"7", "42"}

Predictions == {[winner |-> "T1"], [winner |-> "Fnatic", confidence |-> 70]}

----------------------------------------------------------------------------
(* The handlers as actions: one request is served from start to finish, then *)
(* its response is delivered and the next request is taken                   *)

NoRequest == [op |-> "none", game |-> NoGame, id |-> "", prediction |-> <<>>]

NoResponse == [status |-> 0, detail |-> "", body |-> EmptyBody]

Idle == response = NoResponse

Init ==
    /\ tournaments = {}
    /\ teams = {}
    /\ request = NoRequest
    /\ response = NoResponse
    /\ calls = <<>>
    /\ fetched = <<>>
    /\ inflight = <<>>

\* autoflush: whether the session handed out by get_db flushes before a query;
\* dbOk: whether the database accepts the commit
ListTournaments ==
    /\ Idle
    /\ \E game \in Games, reply \in ListReplies(TournamentSamples, MaxBatch),
          autoflush \in BOOLEAN, dbOk \in BOOLEAN :
          LET o == handle_get_tournaments(tournaments, fetched, game, reply, autoflush, dbOk)
          IN  /\ request' = [NoRequest EXCEPT !.op = "list_tournaments", !.game = game]
              /\ response' = o.response
              /\ tournaments' = o.table
              /\ calls' = o.calls
              /\ fetched' = o.fetched
    /\ UNCHANGED <<teams, inflight>>

ListTeams ==
    /\ Idle
    /\ \E game \in Games, reply \in ListReplies(TeamSamples, MaxBatch), dbOk \in BOOLEAN :
          \E replies \in [1..Len(reply.data) -> RecentReplies] :
             LET o == handle_get_teams(teams, game, reply, replies, dbOk)
             IN  /\ request' = [NoRequest EXCEPT !.op = "list_teams", !.game = game]
                 /\ response' = o.response
                 /\ teams' = o.table
                 /\ calls' = o.calls
    /\ UNCHANGED <<tournaments, fetched, inflight>>

PredictionRead ==
    /\ Idle
    /\ \E id \in Ids, reply \in ListReplies(MatchSamples, MaxBatch) :
          LET o == handle_get_match_prediction(id, reply)
          IN  /\ request' = [NoRequest EXCEPT !.op = "prediction_read", !.id = id]
              /\ response' = o.response
              /\ calls' = o.calls
    /\ UNCHANGED <<tournaments, teams, fetched, inflight>>

PredictionWrite ==
    /\ Idle
    /\ \E id \in Ids, p \in Predictions, reply \in SingleReplies(MatchSamples) :
          LET o == handle_create_prediction(id, p, reply)
          IN  /\ request' = [NoRequest EXCEPT !.op = "prediction_write", !.id = id,
                                             !.prediction = <<p>>]
              /\ response' = o.response
              /\ calls' = o.calls
    /\ UNCHANGED <<tournaments, teams, fetched, inflight>>

TournamentDetails ==
    /\ Idle
    /\ \E id \in Ids, reply \in SingleReplies(TournamentSamples),
          mreply \in ListReplies(MatchSamples, 1) :
          LET o == handle_get_tournament_details(id, reply, mreply)
          IN  /\ request' = [NoRequest EXCEPT !.op = "tournament_details", !.id = id]
              /\ response' = o.response
              /\ calls' = o.calls
    /\ UNCHANGED <<tournaments, teams, fetched, inflight>>

Deliver ==
    /\ ~Idle
    /\ request' = NoRequest
    /\ response' = NoResponse
    /\ calls' = <<>>
    /\ UNCHANGED <<tournaments, teams, fetched, inflight>>

Next ==
    \/ ListTournaments
    \/ ListTeams
    \/ PredictionRead
    \/ PredictionWrite
    \/ TournamentDetails
    \/ Deliver

Spec == Init /\ [][Next]_vars

----------------------------------------------------------------------------
(* The client's operations called directly: Init draws the call and what the *)
(* provider answers, one action applies the operation                        *)

TournamentCalls ==
    {[op |-> "get_tournaments", game |-> g, reply |-> r] :
        g \in Games, r \in ListReplies(TournamentShapes, MaxFetch)}

TeamCalls ==
    UNION {{[op |-> "get_teams", game |-> g, reply |-> r, replies |-> rs] :
               g \in Games, rs \in [1..Len(r.data) -> RecentShapes]} :
           r \in ListReplies(TeamShapes, MaxFetch)}

WinRateCalls ==
    {[op |-> "win_rate", matches |-> ms, team_id |-> id] :
        ms \in SeqsUpTo(WinnerSamples, MaxMatches), id \in {1, 12}}

InitClient ==
    /\ tournaments = {}
    /\ teams = {}
    /\ request \in TournamentCalls \cup TeamCalls \cup WinRateCalls
    /\ response = NoResponse
    /\ calls = <<>>
    /\ fetched = <<>>
    /\ inflight = <<>>

CallGetTournaments ==
    /\ Idle
    /\ request.op = "get_tournaments"
    /\ LET r == client_get_tournaments(request.game, request.reply)
       IN  /\ response' = [err |-> r.err, msg |-> r.msg, data |-> r.data]
           /\ calls' = r.calls
    /\ UNCHANGED <<tournaments, teams, request, fetched, inflight>>

CallGetTeams ==
    /\ Idle
    /\ request.op = "get_teams"
    /\ LET r == client_get_teams(request.game, request.reply, request.replies)
       IN  /\ response' = [err |-> r.err, msg |-> r.msg, data |-> r.data]
           /\ calls' = r.calls
    /\ UNCHANGED <<tournaments, teams, request, fetched, inflight>>

CallWinRate ==
    /\ Idle
    /\ request.op = "win_rate"
    /\ response' = [err |-> "", msg |-> "",
                    data |-> <<calculate_win_rate(request.matches, request.team_id)>>]
    /\ UNCHANGED <<tournaments, teams, request, calls, fetched, inflight>>

NextClient ==
    \/ CallGetTournaments
    \/ CallGetTeams
    \/ CallWinRate

SpecClient == InitClient /\ [][NextClient]_vars

----------------------------------------------------------------------------
(* Properties of the handlers (Spec) *)

Served(op) == ~Idle /\ request.op = op

ExtIds(rows) == {r.external_id : r \in rows}

\* The provider's answer to the first request the handler issued
Answer == calls[1]

\* C1: after any sequence of successful list-tournaments requests the table holds
\* exactly one row per external_id ever fetched, carrying the fields of the most
\* recently fetched record with that external_id; there is never a second row.
C1_UpsertLastWins ==
    /\ \A r1, r2 \in tournaments : r1.external_id = r2.external_id => r1 = r2
    /\ ExtIds(tournaments) = DOMAIN fetched
    /\ \A r \in tournaments : Fields(r) = fetched[r.external_id]

\* A successful batch that carries the same external_id twice with different values:
\* one row, holding the later values
C1_Witness ==
    /\ Served("list_tournaments")
    /\ response.status = 200
    /\ \E i, j \in 1..Len(response.body.tournaments) :
          LET a == tournament_dict(response.body.tournaments[i])
              b == tournament_dict(response.body.tournaments[j])
          IN  /\ i < j
              /\ a.external_id = b.external_id
              /\ a # b
              /\ \A k \in 1..Len(response.body.tournaments) :
                    tournament_dict(response.body.tournaments[k]).external_id
                        = b.external_id => k <= j
              /\ \E r \in tournaments :
                    r.external_id = b.external_id /\ r.name = b.name /\ r.name # a.name
              /\ Cardinality({r \in tournaments : r.external_id = b.external_id}) = 1

TeamFields(row) == [name |-> row.name, acronym |-> row.acronym,
                    image_url |-> row.image_url, game |-> row.game]

\* The columns a fetched team is to be stored with
FetchedTeamFields(t) ==
    [name |-> IF t.name = Missing THEN "Unnamed Team" ELSE t.name,
     acronym |-> IF t.acronym = Missing THEN "" ELSE t.acronym,
     image_url |-> IF t.image_url = Missing THEN "" ELSE t.image_url,
     game |-> IF t.current_videogame.kind = "dict" /\ t.current_videogame.name # Missing
              THEN t.current_videogame.name ELSE "Unknown Game"]

WellFormedTeam(t) ==
    t.has_id /\ t.current_videogame.kind \in {"dict", "missing"} /\ t.players # "null"

\* C2: GET /teams is an upsert keyed by external_id: when a fetched team's external_id
\* is already persisted, the request succeeds and the table afterwards holds exactly
\* one row for it, carrying the newly fetched name, acronym, image_url and game.
\* (Stated for a batch of one well-formed team and a database that accepts commits.)
C2_TeamsUpsert ==
    [][(/\ request'.op = "list_teams"
        /\ response' # NoResponse
        /\ calls' # <<>>
        /\ calls'[1].status = 200
        /\ Len(calls'[1].data) = 1
        /\ WellFormedTeam(calls'[1].data[1])
        /\ Str(calls'[1].data[1].id) \in ExtIds(teams)
        /\ response'.detail # "Failed to fetch teams: OperationalError")
       => LET t == calls'[1].data[1]
              rows == {r \in teams' : r.external_id = Str(t.id)}
          IN  /\ response'.status = 200
              /\ Cardinality(rows) = 1
              /\ \A r \in rows : TeamFields(r) = FetchedTeamFields(t)]_vars

\* The record of a returned batch that is last to carry the external_id of record i
LastWith(data, i) ==
    data[CHOOSE j \in 1..Len(data) :
            /\ data[j].raw.id = data[i].raw.id
            /\ \A k \in 1..Len(data) : data[k].raw.id = data[i].raw.id => k <= j]

\* C3: every list-tournaments or list-teams request either succeeds with every record
\* of the fetched batch persisted, or answers an error and leaves the persisted rows
\* exactly as they were before the request.
C3_BatchAtomic ==
    [][(request'.op \in {"list_tournaments", "list_teams"} /\ response' # NoResponse)
       => \/ /\ response'.status = 200
             /\ \A i \in 1..Len(response'.body.tournaments) :
                   \E r \in tournaments' :
                      /\ r.external_id = Str(response'.body.tournaments[i].raw.id)
                      /\ [external_id |-> r.external_id] @@ Fields(r)
                            = tournament_dict(LastWith(response'.body.tournaments, i))
             /\ \A i \in 1..Len(response'.body.teams) :
                   \E r \in teams' :
                      /\ r.external_id = Str(response'.body.teams[i].raw.id)
                      /\ TeamFields(r) = FetchedTeamFields(response'.body.teams[i].raw)
          \/ /\ response'.status >= 400
             /\ tournaments' = tournaments
             /\ teams' = teams]_vars

\* An error answer after the first record of the batch was processed and the second
\* raised: nothing of the batch is persisted
C3_Witness ==
    /\ Served("list_tournaments")
    /\ response.status = 500
    /\ calls # <<>>
    /\ Answer.status = 200
    /\ Len(Answer.data) = 2
    /\ tournament_dict_err([raw |-> Answer.data[1]]) = ""
    /\ tournament_dict_err([raw |-> Answer.data[2]]) # ""
    /\ Str(Answer.data[1].id) \notin ExtIds(tournaments)

\* C4: a request to list tournaments or teams whose game argument is outside
\* {lol, valorant} is answered with a client error (4xx) whose message lists exactly
\* the supported games, never with a server error.
C4_UnsupportedGameIsClientError ==
    (/\ ~Idle
     /\ request.op \in {"list_tournaments", "list_teams"}
     /\ Truthy(request.game)
     /\ request.game \notin {"lol", "valorant"})
    => /\ response.status \in 400..499
       /\ response.detail = "Unsupported game. Supported games are: lol, valorant"

\* C5: when the provider reports the requested tournament or match as absent (404),
\* prediction read, prediction write and tournament detail answer 404, never a
\* server error.
C5_AbsentIsNotFound ==
    (/\ ~Idle
     /\ request.op \in {"prediction_read", "prediction_write", "tournament_details"}
     /\ calls # <<>>
     /\ Answer.status = 404)
    => response.status = 404

\* C6: prediction read for a match the provider has fetches that single match and
\* succeeds with prediction "pending", confidence 0.0 and the two opponent names when
\* the match has exactly two opponents, the empty list otherwise.
C6_PredictionRead ==
    (/\ Served("prediction_read")
     /\ calls # <<>>
     /\ Answer.status = 200
     /\ Len(Answer.data) = 1)
    => LET m == Answer.data[1]
       IN  /\ Answer.endpoint = "/matches/" \o request.id
           /\ response.status = 200
           /\ response.body.prediction = "pending"
           /\ response.body.confidence = 0
           /\ response.body.names = IF Len(m.opponents) = 2
                                    THEN <<m.opponents[1].name, m.opponents[2].name>>
                                    ELSE <<>>

\* C7: prediction write for an existing match answers 400 when the match status is
\* "finished" and otherwise succeeds echoing the submitted body unchanged; in both
\* cases no persisted row is created or modified.
C7_PredictionWrite ==
    [][(/\ request'.op = "prediction_write"
        /\ response' # NoResponse
        /\ calls' # <<>>
        /\ calls'[1].status = 200
        /\ calls'[1].data # <<>>)
       => /\ calls'[1].data[1].status = "finished" => response'.status = 400
          /\ calls'[1].data[1].status # "finished" =>
                /\ response'.status = 200
                /\ response'.body.echo = request'.prediction
          /\ tournaments' = tournaments
          /\ teams' = teams]_vars

\* A prediction for a finished match was refused while rows are persisted
C7_Witness ==
    /\ Served("prediction_write")
    /\ response.status = 400
    /\ Answer.data[1].status = "finished"
    /\ tournaments # {}

----------------------------------------------------------------------------
(* Properties of the client's operations (SpecClient) *)

Called(op) == ~Idle /\ request.op = op

HasSlug(t, slug) == t.videogame.kind = "dict" /\ t.videogame.slug = slug

\* C8: for every provider response, the list get_tournaments returns for a supported
\* game holds exactly the provider's records whose videogame slug is the slug mapped
\* to that game (records with a missing or malformed videogame are dropped), in the
\* provider's order; a response with no matching record yields the empty list, not
\* an error.
C8_PostFilter ==
    (/\ Called("get_tournaments")
     /\ request.game \in {"lol", "valorant"}
     /\ request.reply.status = 200)
    => LET slug == IF request.game = "lol" THEN "league-of-legends" ELSE "valorant"
           Matches(t) == HasSlug(t, slug)
           matching == SelectSeq(request.reply.data, Matches)
       IN  /\ response.err = "" =>
                /\ \A i \in 1..Len(response.data) : HasSlug(response.data[i].raw, slug)
                /\ [i \in 1..Len(response.data) |-> response.data[i].raw] = matching
           /\ matching = <<>> => response.err = "" /\ response.data = <<>>

\* A mixed response: one record kept, one discarded
C8_Witness ==
    /\ Called("get_tournaments")
    /\ request.game = "lol"
    /\ response.err = ""
    /\ Len(request.reply.data) = 2
    /\ Len(response.data) = 1
    /\ \E i \in 1..2 : request.reply.data[i].videogame.kind = "null"

\* C9: the win rate of a list of recent matches for a team id is 0 for the empty list
\* and otherwise W/N*100 (N matches, W of them with winner_id equal to the team id),
\* so it lies between 0 and 100; get_teams attaches it only when called for "lol".
C9_WinRate ==
    /\ Called("win_rate") =>
          LET ms == request.matches
              N == Len(ms)
              W == Cardinality({i \in 1..N : ms[i].has_winner
                                              /\ ms[i].winner_id = request.team_id})
              rate == response.data[1]
          IN  /\ rate.den > 0
              /\ N = 0 => rate.num = 0
              /\ N > 0 => rate.num * N = W * 100 * rate.den
              /\ 0 <= rate.num /\ rate.num <= 100 * rate.den
    /\ Called("get_teams") =>
          \A i \in 1..Len(response.data) :
             LET p == response.data[i].recent_performance
                 ms == request.replies[i].data
                 N == Len(ms)
                 W == Cardinality({k \in 1..N : ms[k].has_winner
                        /\ ms[k].winner_id = response.data[i].raw.id})
             IN  p.present =>
                    /\ request.game = "lol"
                    /\ p.win_rate.num * (IF N = 0 THEN 1 ELSE N) = W * 100 * p.win_rate.den

\* Three matches, one of them won
C9_Witness ==
    /\ Called("win_rate")
    /\ Len(request.matches) = 3
    /\ response.data[1] = [num |-> 100, den |-> 3]

----------------------------------------------------------------------------
(* GET /tournaments served side by side: every request has its own session *)
(* and transaction, nothing is locked, and the steps of different requests *)
(* interleave freely.  A session reads the committed rows; its own changes *)
(* reach the table when it commits, and the unique index on external_id    *)
(* decides then which INSERT is admitted.                                  *)

MaxConcBatch == 2    \* records in one provider list response (side-by-side requests)

Requests == {"r1", "r2"}

ConcGames == {NoGame, "lol", "dota2"}

ConcSamples == TournamentSamples

NotStarted == [pc |-> "idle", autoflush |-> FALSE, batch |-> <<>>, todo |-> <<>>,
               dirty |-> {}, added |-> <<>>, status |-> 0, detail |-> ""]

Finished(st, status, detail) ==
    [st EXCEPT !.pc = "done", !.todo = <<>>, !.dirty = {}, !.status = status,
               !.detail = detail]

\* The rows a session sees for an external_id: committed rows, with its own
\* unflushed changes to them
conc_existing(table, st, ext) ==
    {IF \E r \in st.dirty : r.id = c.id THEN CHOOSE r \in st.dirty : r.id = c.id ELSE c :
        c \in {c \in table : c.external_id = ext}}

\* The objects the session itself added for an external_id and has flushed
conc_own(st, ext) ==
    IF st.autoflush THEN {i \in 1..Len(st.added) : st.added[i].external_id = ext} ELSE {}

\* An autoflush before the query INSERTs the added objects: the unique index rejects
\* one whose external_id is committed by now or was added twice
conc_flush_err(table, st) ==
    IF st.autoflush /\ flush([work |-> table, pending |-> st.added, err |-> ""]).err # ""
    THEN "IntegrityError" ELSE ""

\* One iteration of the loop over tournaments_data in a session of its own
conc_upsert(table, st, e) ==
    IF tournament_dict_err(e) # "" THEN
        Finished(st, 500, "Failed to fetch tournaments: " \o tournament_dict_err(e))
    ELSE IF conc_flush_err(table, st) # "" THEN
        Finished(st, 500, "Failed to fetch tournaments: " \o conc_flush_err(table, st))
    ELSE LET d == tournament_dict(e)
             existing == conc_existing(table, st, d.external_id)
             own == conc_own(st, d.external_id)
             rest == [st EXCEPT !.todo = Tail(@)]
         IN  IF existing # {} THEN
                 LET row == CHOOSE r \in existing : \A q \in existing : r.id <= q.id
                 IN  [rest EXCEPT !.dirty = {r \in @ : r.id # row.id} \cup {overwrite(row, d)}]
             ELSE IF own # {} THEN
                 LET i == CHOOSE i \in own : \A j \in own : i <= j
                 IN  [rest EXCEPT !.added[i] = d]
             ELSE [rest EXCEPT !.added = Append(@, d)]

\* The committed rows with the session's UPDATEs applied
conc_updated(table, st) ==
    {IF \E r \in st.dirty : r.id = c.id THEN CHOOSE r \in st.dirty : r.id = c.id ELSE c :
        c \in table}

\* db.commit() of a session: its UPDATEs and INSERTs against the rows committed by now
conc_commit(table, st, dbOk) ==
    commit([work |-> conc_updated(table, st), pending |-> st.added, err |-> ""], dbOk)

InitConc ==
    /\ tournaments = {}
    /\ teams = {}
    /\ request = NoRequest
    /\ response = NoResponse
    /\ calls = <<>>
    /\ fetched = <<>>
    /\ \E autoflush \in BOOLEAN :
          inflight = [p \in Requests |-> [NotStarted EXCEPT !.autoflush = autoflush]]

\* The request arrives: validation and the provider fetch
ConcFetch(p) ==
    /\ inflight[p].pc = "idle"
    /\ \E game \in ConcGames, reply \in ListReplies(ConcSamples, MaxConcBatch) :
          LET st == inflight[p]
              r == client_get_tournaments(game, reply)
          IN  inflight' = [inflight EXCEPT ![p] =
                  IF Truthy(game) /\ ~IsSupported(game)
                  THEN Finished(st, 400, UnsupportedMessage)
                  ELSE IF r.err # ""
                  THEN Finished(st, 500, "Failed to fetch tournaments: " \o r.msg)
                  ELSE [st EXCEPT !.pc = "loop", !.batch = r.data, !.todo = r.data]]
    /\ UNCHANGED <<tournaments, teams, request, response, calls, fetched>>

\* One record of the batch is looked up and updated or added in the session
ConcUpsert(p) ==
    /\ inflight[p].pc = "loop"
    /\ inflight[p].todo # <<>>
    /\ inflight' = [inflight EXCEPT ![p] =
                        conc_upsert(tournaments, inflight[p], Head(inflight[p].todo))]
    /\ UNCHANGED <<tournaments, teams, request, response, calls, fetched>>

\* db.commit(); on failure db.rollback() and a 500
ConcCommit(p) ==
    /\ inflight[p].pc = "loop"
    /\ inflight[p].todo = <<>>
    /\ \E dbOk \in BOOLEAN :
          LET c == conc_commit(tournaments, inflight[p], dbOk)
          IN  IF c.err # "" THEN
                  /\ tournaments' = rollback(tournaments, c)
                  /\ inflight' = [inflight EXCEPT ![p] =
                        Finished(@, 500, "Failed to save tournaments to database")]
              ELSE
                  /\ tournaments' = c.work
                  /\ inflight' = [inflight EXCEPT ![p] = Finished(@, 200, "")]
    /\ UNCHANGED <<teams, request, response, calls, fetched>>

NextConc ==
    \/ \E p \in Requests : ConcFetch(p)
    \/ \E p \in Requests : ConcUpsert(p)
    \/ \E p \in Requests : ConcCommit(p)

SpecConc == InitConc /\ [][NextConc]_vars

----------------------------------------------------------------------------
(* Properties of side-by-side list-tournaments requests (SpecConc) *)

Done(p) == inflight[p].pc = "done"

\* The external_ids a request found unseen and added to its session
Inserted(p) == {inflight[p].added[i].external_id : i \in 1..Len(inflight[p].added)}

\* C11: under any interleaving of concurrent list-tournaments requests no two
\* persisted tournament rows ever share an external_id; when two requests both found
\* the same external_id unseen and both added it, at most one of them commits, the
\* other ends with a server error, and a request that ends with an error leaves
\* nothing of its batch persisted.
C11_UniqueUnderConcurrency ==
    /\ [](\A r1, r2 \in tournaments : r1.external_id = r2.external_id => r1 = r2)
    /\ [](\A p, q \in Requests :
            (p # q /\ Done(p) /\ Done(q) /\ Inserted(p) \cap Inserted(q) # {}) =>
                /\ ~(inflight[p].status = 200 /\ inflight[q].status = 200)
                /\ inflight[p].status \in {200, 500}
                /\ inflight[q].status \in {200, 500})
    /\ [][\A p \in Requests :
            (inflight[p].pc # "done" /\ inflight'[p].pc = "done"
             /\ inflight'[p].status # 200) => tournaments' = tournaments]_vars

\* Two requests added the same unseen external_id; one committed, the other ended
\* with 500 and the other record of its batch is not persisted either
C11_Witness ==
    \E p, q \in Requests :
       /\ p # q
       /\ Done(p) /\ Done(q)
       /\ inflight[p].status = 200
       /\ inflight[q].status = 500
       /\ \E e \in Inserted(p) \cap Inserted(q) :
             Cardinality({r \in tournaments : r.external_id = e}) = 1
       /\ \E e \in Inserted(q) : e \notin ExtIds(tournaments)

====
